---- MODULE Spec2Model ----
(***************************************************************************)
(* Model of lib/cli_common/cli_common/phabricator.py: the Conduit          *)
(* transport (PhabricatorAPI.request, ConduitError), the revision graph    *)
(* walker (load_parents) and the patch stack assembler                     *)
(* (load_patches_stack) running against a remote review system and a      *)
(* Mercurial working copy.                                                 *)
(*                                                                         *)
(* One behaviour is one call of load_patches_stack(repo, diff,             *)
(* default_revision).  The remote system's answers are inputs of the       *)
(* actions.  The answer to an edge query is chosen when a revision is first *)
(* queried and remembered in edgeGraph while load_parents runs, so that    *)
(* the walk sees one fixed finite graph; a revision's diffs are queried at *)
(* most once per call, so their answer is chosen at that query.            *)
(***************************************************************************)
EXTENDS Integers, Sequences, FiniteSets, TLC

VARIABLES
    pc,                \* position in load_patches_stack / load_parents
    diff,              \* the target diff dict passed by the caller
    default_revision,  \* the caller-supplied default revision
    edgeGraph,         \* remote: revision -> its revision.parent edges, once queried
    parents,           \* load_parents: accumulator
    phids,             \* load_parents: work list
    phid,              \* load_parents: the revision popped last
    data,              \* load_parents: edges of the current pop not yet processed
    patches,           \* load_patches_stack: OrderedDict diff phid -> id / raw diff
    idx,               \* index of the running for loop over parents / patches
    hg_base,           \* load_patches_stack: candidate, then resolved, base revision
    warnings,          \* records written at warning level
    posts,             \* number of requests.post invocations
    calls,             \* log of remote calls and working copy commands, in order
    lastResp,          \* the HTTP response of the last request
    lastOut,           \* what the last request did with it
    error,             \* the exception that left load_patches_stack, if any
    result,            \* the value load_patches_stack returned, if any
    repoRev,           \* the working copy's checked-out revision
    cache,             \* the keys of revision_exists_on_central's lru_cache, oldest use first
    gets               \* number of requests.get invocations

vars == <<pc, diff, default_revision, edgeGraph, parents, phids, phid,
          data, patches, idx, hg_base, warnings, posts, calls, lastResp, lastOut,
          error, result, repoRev, cache, gets>>

\* the state of the module-level cache of revision_exists_on_central
central == <<cache, gets>>

----------------------------------------------------------------------------
(* Bounds *)

\* number of revisions of the remote review system
NumRevs == 3
\* largest number of parent edges of the remote graph
MaxEdges == 4
\* largest number of diffs one revision holds
MaxDiffs == 2

----------------------------------------------------------------------------
(* Values *)

None == "None"
\* a JSON null where a result is expected
Null == [null |-> TRUE]

REVS == 1..NumRevs
\* the revisions are interchangeable: the target diff's revision is the first
TargetRevision == CHOOSE r \in REVS : \A q \in REVS : r <= q
DIFFIDS == 1..(NumRevs * MaxDiffs)

\* hg revisions named by the diffs of the remote catalogue
HgRevs == {"abc123", "def456"}
DefaultRevisions == {"central"}
InitialRepoRev == "000000"

SeqsUpTo(S, n) == UNION {[1..k -> S] : k \in 0..n}

\* a membership test that looks at the newest element only
IsInLast(x, s) == s # <<>> /\ s[Len(s)] = x

\* x in s, for a list s
IsIn(x, s) == \E i \in DOMAIN s : s[i] = x

Last(s) == s[Len(s)]
Front(s) == SubSeq(s, 1, Len(s) - 1)

RECURSIVE Reverse(_)
Reverse(s) == IF s = <<>> THEN <<>> ELSE Append(Reverse(Tail(s)), Head(s))

----------------------------------------------------------------------------
(* The remote catalogue of diffs: which revision owns a diff id and which  *)
(* refs it carries is a fixed table; which of them exist, and in which     *)
(* order a query returns them, is chosen per behaviour.                    *)

RevisionOf(id) == ((id - 1) % NumRevs) + 1
Generation(id) == (id - 1) \div NumRevs
DiffPhid(id) == <<"PHID-DIFF", id>>

RefsOf(id) ==
    LET s == (RevisionOf(id) + Generation(id)) % 3
    IN  IF s = 0 THEN << [type |-> "branch", identifier |-> "default"] >>
        ELSE IF s = 1 THEN << [type |-> "base", identifier |-> "abc123"] >>
        ELSE << [type |-> "branch", identifier |-> "default"],
                [type |-> "base", identifier |-> "def456"] >>

\* a diff as differential.diff.search returns it
RawDiff(id) ==
    [id |-> id, phid |-> DiffPhid(id),
     fields |-> [revisionPHID |-> RevisionOf(id), refs |-> RefsOf(id)]]

\* search_diffs._clean: lift the fields, index the refs by type, look up the base
Clean(d) ==
    LET refs == d.fields.refs
        base == {i \in DOMAIN refs : refs[i].type = "base"}
    IN  [id |-> d.id, phid |-> d.phid, revisionPHID |-> d.fields.revisionPHID,
         baseRevision |-> IF base = {} THEN None
                          ELSE refs[CHOOSE i \in base : \A j \in base : j <= i].identifier]

\* list(map(_clean, out['data']))
CleanAll(ds) == [i \in DOMAIN ds |-> Clean(ds[i])]

----------------------------------------------------------------------------
(* Conduit transport *)

ErrorCodes == {"ERR-CONDUIT-CORE", "ERR-INVALID-AUTH"}
ErrorInfos == {None, "", "Session key is not present."}

\* The HTTP exchanges one request can meet.  sent: requests.post returned a
\* response; json: its body parses; ok: its status is below 400; the rest is the
\* envelope, a missing error_code or result key being has_... = FALSE.
GoodResponse(res) ==
    [sent |-> TRUE, json |-> TRUE, ok |-> TRUE, has_error_code |-> TRUE,
     error_code |-> None, error_info |-> None, has_result |-> TRUE, result |-> res]

\* every exchange: nothing arrives when nothing was sent, and no envelope
\* without a body that parses
HttpResponses(results) ==
    {r \in [sent : BOOLEAN, json : BOOLEAN, ok : BOOLEAN, has_error_code : BOOLEAN,
            error_code : ErrorCodes \cup {None}, error_info : ErrorInfos,
            has_result : BOOLEAN, result : results \cup {Null}] :
        /\ ~r.sent => (~r.json /\ ~r.ok)
        /\ ~r.json => (~r.has_error_code /\ ~r.has_result)
        /\ ~r.has_error_code => (r.error_code = None /\ r.error_info = None)
        /\ ~r.has_result => r.result = Null}

\* one failing exchange per way a remote call of the stack loader can fail:
\* no response, a body that is no JSON, a status that is not ok, a Conduit error
Failures ==
    {[GoodResponse(Null) EXCEPT !.sent = FALSE, !.json = FALSE, !.ok = FALSE,
                                !.has_error_code = FALSE, !.has_result = FALSE],
     [GoodResponse(Null) EXCEPT !.json = FALSE, !.has_error_code = FALSE,
                                !.has_result = FALSE],
     [GoodResponse(Null) EXCEPT !.ok = FALSE],
     [GoodResponse(Null) EXCEPT !.error_code = "ERR-CONDUIT-CORE",
                                !.error_info = "Session key is not present."]}

\* the exchanges of a remote call whose truthful answer is one of results
Responses(results) == Failures \cup {GoodResponse(res) : res \in results}

Returned(res) ==
    [raised |-> None, error_code |-> None, error_info |-> None, msg |-> None,
     warning |-> <<>>, result |-> res]

Raised(type, msg) ==
    [raised |-> type, error_code |-> None, error_info |-> None, msg |-> msg,
     warning |-> <<>>, result |-> Null]

NoError == Returned(Null)

\* a ConduitError that logs nothing
ConduitErrorQuiet(msg, error_code, error_info) ==
    [raised |-> "ConduitError", error_code |-> error_code, error_info |-> error_info,
     msg |-> msg, warning |-> <<>>, result |-> Null]

\* ConduitError.__init__: keeps code and info and logs them at warning level
ConduitError(msg, error_code, error_info) ==
    [raised |-> "ConduitError", error_code |-> error_code, error_info |-> error_info,
     msg |-> msg,
     warning |-> <<"Conduit API error", error_code,
                   IF error_info \in {None, ""} THEN "unknown" ELSE error_info>>,
     result |-> Null]

\* ConduitError.raise_if_error: the exception raised, or nothing raised
RaiseIfError(response_body) ==
    IF response_body.error_code # None
    THEN ConduitError(response_body.error_info, response_body.error_code,
                      response_body.error_info)
    ELSE Returned(Null)

\* PhabricatorAPI.request, from the response of its one requests.post
Request(response) ==
    IF ~response.sent THEN Raised("RequestException", None)
    ELSE IF ~response.json THEN Raised("ValueError", None)
    ELSE IF ~response.ok THEN Raised("AssertionError", None)
    ELSE IF ~response.has_error_code THEN Raised("AssertionError", None)
    ELSE IF RaiseIfError(response).raised # None THEN RaiseIfError(response)
    ELSE IF ~response.has_result THEN Raised("AssertionError", None)
    ELSE Returned(response.result)

NoResponse == [called |-> FALSE]
NoResult == [returned |-> FALSE]

\* No call of load_patches_stack posts more often than this: one edge query per
\* revision and one more for the target's, one diff query per parent, one raw
\* diff per parent and one for the target.
MaxPosts == 3 * NumRevs + 2

\* a request that posts once more when the first exchange failed
RequestedRetry(path, arg, response) ==
    /\ posts < MaxPosts
    /\ posts' = posts + (IF Request(response).raised # None THEN 2 ELSE 1)
    /\ calls' = Append(calls, <<path, arg>>)
    /\ lastResp' = response
    /\ lastOut' = Request(response)
    /\ warnings' = IF Request(response).warning # <<>>
                   THEN Append(warnings, Request(response).warning)
                   ELSE warnings

\* What one request leaves behind, whatever the caller does with its outcome.
Requested(path, arg, response) ==
    /\ posts < MaxPosts
    /\ posts' = posts + 1
    /\ calls' = Append(calls, <<path, arg>>)
    /\ lastResp' = response
    /\ lastOut' = Request(response)
    /\ warnings' = IF Request(response).warning # <<>>
                   THEN Append(warnings, Request(response).warning)
                   ELSE warnings

----------------------------------------------------------------------------
(* Remote answers *)

\* what the behaviour has seen of the remote data: revision -> answer
NothingKnown == [r \in {} |-> <<>>]
Learn(known, rev, answer) ==
    [r \in DOMAIN known \cup {rev} |-> IF r = rev THEN answer ELSE known[r]]

RECURSIVE EdgesOf(_, _)
EdgesOf(known, revs) ==
    IF revs = {} THEN 0
    ELSE LET r == CHOOSE q \in revs : TRUE
         IN  Len(known[r]) + EdgesOf(known, revs \ {r})

\* the data of an edge.search answer: parent edges in the order returned, a
\* destination possibly more than once, within the graph's MaxEdges edges
EdgeLists(n) == SeqsUpTo([destinationPHID : REVS], n)

EdgeAnswers(rev) ==
    IF rev \in DOMAIN edgeGraph THEN {edgeGraph[rev]}
    ELSE EdgeLists(MaxEdges - EdgesOf(edgeGraph, DOMAIN edgeGraph))

\* the data of a differential.diff.search answer for one revision: any of its
\* diffs, each once, in any order; the target diff exists on its revision
DiffLists(rev) ==
    {[i \in DOMAIN s |-> RawDiff(s[i])] :
        s \in {t \in SeqsUpTo({id \in DIFFIDS : RevisionOf(id) = rev}, MaxDiffs) :
                 /\ \A i, j \in DOMAIN t : t[i] = t[j] => i = j
                 /\ rev = diff.revisionPHID => \E i \in DOMAIN t : t[i] = diff.id}}

\* differential.getrawdiff
RawContent(id) == [raw |-> id]

----------------------------------------------------------------------------
(* load_patches_stack, with load_parents inlined at its call *)

\* nothing has run: no request made, nothing logged, the working copy untouched
Fresh ==
    /\ diff \in {Clean(RawDiff(id)) : id \in {i \in DIFFIDS : RevisionOf(i) = TargetRevision}}
    /\ default_revision \in DefaultRevisions
    /\ edgeGraph = NothingKnown
    /\ parents = <<>>
    /\ phids = <<>>
    /\ phid = None
    /\ data = <<>>
    /\ patches = <<>>
    /\ idx = 0
    /\ hg_base = None
    /\ warnings = <<>>
    /\ posts = 0
    /\ calls = <<>>
    /\ lastResp = NoResponse
    /\ lastOut = NoResponse
    /\ error = NoError
    /\ result = NoResult
    /\ repoRev = InitialRepoRev
    /\ cache = <<>>
    /\ gets = 0

\* a constructed client about to run load_patches_stack(repo, diff, default_revision)
Init ==
    /\ pc = "start"
    /\ Fresh

\* OrderedDict.__setitem__: a present key keeps its position
OrderedDictSet(d, k, v) ==
    IF \E i \in DOMAIN d : d[i].key = k
    THEN [i \in DOMAIN d |-> IF d[i].key = k THEN [key |-> k, val |-> v] ELSE d[i]]
    ELSE Append(d, [key |-> k, val |-> v])

\* lines 465-468 and 254: seed patches with the target, enter load_parents
Begin ==
    /\ pc = "start"
    /\ patches' = OrderedDictSet(<<>>, diff.phid, [id |-> diff.id])
    /\ parents' = <<>>
    /\ phids' = <<diff.revisionPHID>>
    /\ pc' = "while"
    /\ UNCHANGED <<central, diff, default_revision, edgeGraph, phid, data, idx,
                   hg_base, warnings, posts, calls, lastResp, lastOut, error, result,
                   repoRev>>

\* lines 255-261: pop the work list and query the popped revision's parent edges
WhilePop ==
    /\ pc = "while"
    /\ phids # <<>>
    /\ \E response \in Responses({[data |-> es] : es \in EdgeAnswers(Last(phids))}) :
          /\ Requested("edge.search", Last(phids), response)
          /\ phid' = Last(phids)
          /\ phids' = Front(phids)
          /\ IF Request(response).raised = None
             THEN /\ edgeGraph' = Learn(edgeGraph, Last(phids),
                                        Request(response).result.data)
                  /\ data' = Request(response).result.data
                  /\ pc' = "for"
                  /\ error' = error
             ELSE /\ edgeGraph' = NothingKnown   \* the call is over
                  /\ data' = data
                  /\ pc' = "failed"
                  /\ error' = Request(response)
    /\ UNCHANGED <<central, diff, default_revision, parents, patches, idx, hg_base,
                   result, repoRev>>

\* a walker that queues a destination it has already seen instead of stopping
ForBreakRequeue ==
    /\ pc = "for"
    /\ data # <<>>
    /\ IsIn(Head(data).destinationPHID, parents)
    /\ phids' = Append(phids, Head(data).destinationPHID)
    /\ data' = Tail(data)
    /\ UNCHANGED <<central, pc, diff, default_revision, edgeGraph, parents, phid, patches, idx,
                   hg_base, warnings, posts, calls, lastResp, lastOut, error, result,
                   repoRev>>

\* a walker that skips a destination it has already seen and goes on with the
\* remaining edges of the pop
ForContinue ==
    /\ pc = "for"
    /\ data # <<>>
    /\ IsIn(Head(data).destinationPHID, parents)
    /\ data' = Tail(data)
    /\ UNCHANGED <<central, pc, diff, default_revision, edgeGraph, parents, phids, phid,
                   patches, idx, hg_base, warnings, posts, calls, lastResp, lastOut,
                   error, result, repoRev>>

\* lines 262-265: the next destination is already in parents: break
ForBreak ==
    /\ pc = "for"
    /\ data # <<>>
    /\ IsIn(Head(data).destinationPHID, parents)
    /\ data' = <<>>
    /\ pc' = "while"
    /\ UNCHANGED <<central, diff, default_revision, edgeGraph, parents, phids, phid,
                   patches, idx, hg_base, warnings, posts, calls, lastResp, lastOut,
                   error, result, repoRev>>

\* a walker that records a new destination but never expands it
ForAppendNoQueue ==
    /\ pc = "for"
    /\ data # <<>>
    /\ ~IsIn(Head(data).destinationPHID, parents)
    /\ parents' = Append(parents, Head(data).destinationPHID)
    /\ data' = Tail(data)
    /\ UNCHANGED <<central, pc, diff, default_revision, edgeGraph, phids, phid, patches, idx,
                   hg_base, warnings, posts, calls, lastResp, lastOut, error, result,
                   repoRev>>

\* lines 262-268: the next destination is new: append it and queue it
ForAppend ==
    /\ pc = "for"
    /\ data # <<>>
    /\ ~IsIn(Head(data).destinationPHID, parents)
    /\ parents' = Append(parents, Head(data).destinationPHID)
    /\ phids' = Append(phids, Head(data).destinationPHID)
    /\ data' = Tail(data)
    /\ UNCHANGED <<central, pc, diff, default_revision, edgeGraph, phid, patches, idx,
                   hg_base, warnings, posts, calls, lastResp, lastOut, error, result,
                   repoRev>>

\* line 262: the edges of this pop are exhausted
ForEnd ==
    /\ pc = "for"
    /\ data = <<>>
    /\ pc' = "while"
    /\ UNCHANGED <<central, diff, default_revision, edgeGraph, parents, phids, phid,
                   data, patches, idx, hg_base, warnings, posts, calls, lastResp,
                   lastOut, error, result, repoRev>>

\* lines 255, 270, 468-469, 486-488: the work list is empty, load_parents returns
WhileExit ==
    /\ pc = "while"
    /\ phids = <<>>
    /\ IF parents # <<>>
       THEN /\ pc' = "parents"
            /\ idx' = 1
            /\ hg_base' = hg_base
       ELSE /\ pc' = "resolve"
            /\ idx' = idx
            /\ hg_base' = diff.baseRevision
    /\ edgeGraph' = NothingKnown   \* no edge query follows the walk
    /\ UNCHANGED <<central, diff, default_revision, parents, phids, phid,
                   data, patches, warnings, posts, calls, lastResp, lastOut, error,
                   result, repoRev>>

\* sorted(..., key=lambda x: x['id']): stable insertion by ascending id
RECURSIVE InsertById(_, _)
InsertById(sorted, d) ==
    IF sorted = <<>> THEN <<d>>
    ELSE IF Last(sorted).id <= d.id THEN Append(sorted, d)
    ELSE Append(InsertById(Front(sorted), d), Last(sorted))

\* no sort: the diffs in the order the remote returned them
Unsorted(ds) == ds

RECURSIVE SortedById(_)
SortedById(ds) ==
    IF ds = <<>> THEN <<>> ELSE InsertById(SortedById(Front(ds)), Last(ds))

\* an iteration that lets only the first parent set the base
ParentIterationFirstBase(patches_, hg_base_, diffs) ==
    LET parent_diffs == SortedById(diffs)
    IN  IF parent_diffs = <<>>
        THEN [raised |-> Raised("IndexError", "list index out of range"),
              patches |-> patches_, hg_base |-> hg_base_]
        ELSE [raised |-> NoError,
              patches |-> OrderedDictSet(patches_, Last(parent_diffs).phid,
                                         [id |-> Last(parent_diffs).id]),
              hg_base |-> IF Len(patches_) = 1 THEN Last(parent_diffs).baseRevision
                          ELSE hg_base_]

\* an iteration that skips a parent without diffs
ParentIterationSkipEmpty(patches_, hg_base_, diffs) ==
    LET parent_diffs == SortedById(diffs)
    IN  IF parent_diffs = <<>>
        THEN [raised |-> NoError, patches |-> patches_, hg_base |-> hg_base_]
        ELSE [raised |-> NoError,
              patches |-> OrderedDictSet(patches_, Last(parent_diffs).phid,
                                         [id |-> Last(parent_diffs).id]),
              hg_base |-> Last(parent_diffs).baseRevision]

\* lines 476-484: what one iteration of the loop over parents does with the
\* parent's diffs: the diff of highest id enters patches and sets the base
ParentIteration(patches_, hg_base_, diffs) ==
    LET parent_diffs == SortedById(diffs)
    IN  IF parent_diffs = <<>>
        THEN [raised |-> Raised("IndexError", "list index out of range"),
              patches |-> patches_, hg_base |-> hg_base_]
        ELSE [raised |-> NoError,
              patches |-> OrderedDictSet(patches_, Last(parent_diffs).phid,
                                         [id |-> Last(parent_diffs).id]),
              hg_base |-> Last(parent_diffs).baseRevision]

\* search_diffs(revision_phid=...), from the outcome of its request
SearchDiffs(out) == CleanAll(out.result.data)

\* lines 472-484 (one iteration): search the parent's diffs, keep the last by id
ParentDiffs ==
    /\ pc = "parents"
    /\ \E response \in Responses({[data |-> ds] : ds \in DiffLists(parents[idx])}) :
          /\ Requested("differential.diff.search", parents[idx], response)
          /\ IF Request(response).raised # None
             THEN /\ pc' = "failed"
                  /\ error' = Request(response)
                  /\ UNCHANGED <<patches, hg_base, idx>>
             ELSE LET it == ParentIteration(patches, hg_base,
                                            SearchDiffs(Request(response)))
                  IN  IF it.raised.raised # None
                      THEN /\ pc' = "failed"
                           /\ error' = it.raised
                           /\ UNCHANGED <<patches, hg_base, idx>>
                      ELSE /\ patches' = it.patches
                           /\ hg_base' = it.hg_base
                           /\ idx' = idx + 1
                           /\ pc' = IF idx = Len(parents) THEN "resolve" ELSE "parents"
                           /\ error' = error
    /\ UNCHANGED <<central, diff, default_revision, edgeGraph, parents, phids, phid, data, result,
                   repoRev>>

\* what an hglib command can do
HgOutcomes == {"ok", "CommandError"}

\* a probe that takes every revision for available
RevisionAvailableAlways(identify) == TRUE

\* revision_available, from what repo.identify(revision) did
RevisionAvailable(identify) == identify # "CommandError"

MissingBase(rev) == <<"Missing base revision from Phabricator", rev>>

\* lines 490-493, hg_base is None: fall back to the default without asking the repo
ResolveNone ==
    /\ pc = "resolve"
    /\ hg_base = None
    /\ warnings' = Append(warnings, MissingBase(hg_base))
    /\ hg_base' = default_revision
    /\ idx' = 1
    /\ pc' = "raw"
    /\ UNCHANGED <<central, diff, default_revision, edgeGraph, parents, phids, phid, data, patches,
                   posts, calls, lastResp, lastOut, error, result, repoRev>>

\* a probe that finds out whether the base is there by updating to it
ResolveProbeByUpdate ==
    /\ pc = "resolve"
    /\ hg_base # None
    /\ \E identify \in HgOutcomes :
          /\ calls' = Append(calls, <<"hg.identify", hg_base, identify>>)
          /\ IF RevisionAvailable(identify)
             THEN /\ repoRev' = hg_base
                  /\ UNCHANGED <<warnings, hg_base>>
             ELSE /\ warnings' = Append(warnings, MissingBase(hg_base))
                  /\ hg_base' = default_revision
                  /\ repoRev' = repoRev
    /\ idx' = 1
    /\ pc' = "raw"
    /\ UNCHANGED <<central, diff, default_revision, edgeGraph, parents, phids, phid, data,
                   patches, posts, lastResp, lastOut, error, result>>

\* lines 490-493, hg_base is set: probe the working copy, fall back when it is missing
ResolveProbe ==
    /\ pc = "resolve"
    /\ hg_base # None
    /\ \E identify \in HgOutcomes :
          /\ calls' = Append(calls, <<"hg.identify", hg_base, identify>>)
          /\ IF RevisionAvailable(identify)
             THEN UNCHANGED <<warnings, hg_base>>
             ELSE /\ warnings' = Append(warnings, MissingBase(hg_base))
                  /\ hg_base' = default_revision
    /\ idx' = 1
    /\ pc' = "raw"
    /\ UNCHANGED <<central, diff, default_revision, edgeGraph, parents, phids, phid, data, patches,
                   posts, lastResp, lastOut, error, result, repoRev>>

\* load_raw_diff
LoadRawDiff(diff_id, response) ==
    Requested("differential.getrawdiff", diff_id, response)

\* a loader that updates the working copy before it fetches the first raw diff
RawLoopAfterUpdate ==
    /\ pc = "raw"
    /\ posts < MaxPosts
    /\ \E response \in Responses({RawContent(patches[idx].val.id)}) :
          /\ posts' = posts + 1
          /\ calls' = Append(IF idx = 1 THEN Append(calls, <<"hg.update", hg_base, "ok">>)
                                        ELSE calls,
                             <<"differential.getrawdiff", patches[idx].val.id>>)
          /\ lastResp' = response
          /\ lastOut' = Request(response)
          /\ warnings' = IF Request(response).warning # <<>>
                         THEN Append(warnings, Request(response).warning)
                         ELSE warnings
          /\ IF Request(response).raised # None
             THEN /\ pc' = "failed"
                  /\ error' = Request(response)
                  /\ UNCHANGED <<patches, idx>>
             ELSE /\ patches' = OrderedDictSet(patches, patches[idx].key,
                                               Request(response).result)
                  /\ idx' = idx + 1
                  /\ pc' = IF idx = Len(patches) THEN "update" ELSE "raw"
                  /\ error' = error
    /\ UNCHANGED <<central, diff, default_revision, edgeGraph, parents, phids, phid, data, hg_base,
                   result, repoRev>>

\* lines 495-497 (one iteration): replace the entry's id by its raw diff
RawLoop ==
    /\ pc = "raw"
    /\ \E response \in Responses({RawContent(patches[idx].val.id)}) :
          /\ LoadRawDiff(patches[idx].val.id, response)
          /\ IF Request(response).raised # None
             THEN /\ pc' = "failed"
                  /\ error' = Request(response)
                  /\ UNCHANGED <<patches, idx>>
             ELSE /\ patches' = OrderedDictSet(patches, patches[idx].key,
                                               Request(response).result)
                  /\ idx' = idx + 1
                  /\ pc' = IF idx = Len(patches) THEN "update" ELSE "raw"
                  /\ error' = error
    /\ UNCHANGED <<central, diff, default_revision, edgeGraph, parents, phids, phid, data, hg_base,
                   result, repoRev>>

\* an update that goes on to the default revision when the base cannot be checked out
UpdateFallback ==
    /\ pc = "update"
    /\ \E update \in HgOutcomes :
          /\ calls' = Append(calls, <<"hg.update", hg_base, update>>)
          /\ pc' = "identify"
          /\ error' = error
          /\ repoRev' = IF update = "CommandError" THEN default_revision ELSE hg_base
    /\ UNCHANGED <<central, diff, default_revision, edgeGraph, parents, phids, phid, data, patches,
                   idx, hg_base, warnings, posts, lastResp, lastOut, result>>

\* lines 499-507: update the working copy to the base, clean
Update ==
    /\ pc = "update"
    /\ \E update \in HgOutcomes :
          /\ calls' = Append(calls, <<"hg.update", hg_base, update>>)
          /\ IF update = "CommandError"
             THEN /\ pc' = "failed"
                  /\ error' = Raised("Exception", <<"Failed to update to revision", hg_base>>)
                  /\ repoRev' = repoRev
             ELSE /\ pc' = "identify"
                  /\ error' = error
                  /\ repoRev' = hg_base
    /\ UNCHANGED <<central, diff, default_revision, edgeGraph, parents, phids, phid, data, patches,
                   idx, hg_base, warnings, posts, lastResp, lastOut, result>>

\* patches.items()
Items(d) == [i \in DOMAIN d |-> <<d[i].key, d[i].val>>]

\* lines 509-515: read the working copy's revision back, return it with the stack
Return ==
    /\ pc = "identify"
    /\ calls' = Append(calls, <<"hg.identify", "id", "ok">>)
    /\ result' = [returned |-> TRUE, revision |-> repoRev,
                  stack |-> Reverse(Items(patches))]
    /\ pc' = "done"
    /\ UNCHANGED <<central, diff, default_revision, edgeGraph, parents, phids, phid, data, patches,
                   idx, hg_base, warnings, posts, lastResp, lastOut, error, repoRev>>

\* the load_parents part of the call
WalkNext ==
    \/ Begin
    \/ WhilePop
    \/ ForBreak
    \/ ForAppend
    \/ ForEnd
    \/ WhileExit

Next ==
    \/ Begin
    \/ WhilePop
    \/ ForBreak
    \/ ForAppend
    \/ ForEnd
    \/ WhileExit
    \/ ParentDiffs
    \/ ResolveNone
    \/ ResolveProbe
    \/ RawLoop
    \/ Update
    \/ Return

Spec == Init /\ [][Next]_vars

\* load_parents alone; the program is sequential and every request returns or
\* raises, so the step that is enabled is taken
FairWalk == Init /\ [][WalkNext]_vars /\ WF_vars(WalkNext)

----------------------------------------------------------------------------
(* PhabricatorAPI.__init__: the one request every client starts with *)

Urls == {"https://phabricator.services.mozilla.com/api/", "http://phabricator.test"}
EndsWithApi(url) == url = "https://phabricator.services.mozilla.com/api/"

Users == {[phid |-> "PHID-USER-1", realName |-> "Tester"],
          [phid |-> "PHID-USER-2", realName |-> "Reviewer"]}

InitConstruct ==
    /\ pc = "init"
    /\ Fresh

\* lines 122-126: the url does not end with /api/
ConstructBadUrl ==
    /\ pc = "init"
    /\ \E url \in Urls : ~EndsWithApi(url)
    /\ pc' = "failed"
    /\ error' = Raised("AssertionError", "Phabricator API must end with /api/")
    /\ UNCHANGED <<central, diff, default_revision, edgeGraph, parents, phids, phid, data, patches,
                   idx, hg_base, warnings, posts, calls, lastResp, lastOut, result,
                   repoRev>>

\* lines 122-130: self.user = self.request('user.whoami')
Construct ==
    /\ pc = "init"
    /\ \E url \in Urls : EndsWithApi(url)
    /\ \E response \in HttpResponses(Users) :
          /\ Requested("user.whoami", "token", response)
          /\ IF Request(response).raised # None
             THEN /\ pc' = "failed"
                  /\ error' = Request(response)
                  /\ result' = result
             ELSE /\ pc' = "constructed"
                  /\ error' = error
                  /\ result' = [returned |-> TRUE, user |-> Request(response).result]
    /\ UNCHANGED <<central, diff, default_revision, edgeGraph, parents, phids, phid, data, patches,
                   idx, hg_base, repoRev>>

ConstructNext ==
    \/ ConstructBadUrl
    \/ Construct

SpecRequest == InitConstruct /\ [][ConstructNext]_vars

----------------------------------------------------------------------------
(* Properties of load_parents *)

\* load_parents is about to return parents (line 270)
WalkReturns == pc = "while" /\ phids = <<>>

\* load_parents is over: it returned, or a request of it raised
WalkOver == pc \notin {"start", "while", "for"}

NoDuplicates(s) == \A i, j \in DOMAIN s : s[i] = s[j] => i = j

\* the revisions the edges of rev lead to, as far as they are known
ParentsOf(rev) ==
    IF rev \in DOMAIN edgeGraph
    THEN {edgeGraph[rev][i].destinationPHID : i \in DOMAIN edgeGraph[rev]}
    ELSE {}

\* the requests never run into the cap that bounds the counter
PostsWithinCap ==
    /\ posts <= MaxPosts
    /\ (pc \in {"parents", "raw"} \/ (pc = "while" /\ phids # <<>>)) => posts < MaxPosts

\* C1: at every point of the walk and in the sequence load_parents returns, no
\* revision is in the accumulator twice, whatever the graph (cycles, several
\* parents, the same destination twice in one answer).
C1_NoDuplicateParents == NoDuplicates(parents)

\* the walk returns from a graph where a revision has two parent edges and two
\* ancestors list each other
C1_Witness ==
    /\ WalkReturns
    /\ \E r \in DOMAIN edgeGraph : Len(edgeGraph[r]) >= 2
    /\ \E a, b \in DOMAIN edgeGraph :
          /\ a # b /\ a # diff.revisionPHID /\ b # diff.revisionPHID
          /\ b \in ParentsOf(a) /\ a \in ParentsOf(b)

\* the revisions met by following the single parent edge from rev, at most n of them
RECURSIVE ChainFrom(_, _)
ChainFrom(rev, n) ==
    IF n = 0 \/ rev \notin DOMAIN edgeGraph \/ edgeGraph[rev] = <<>> THEN <<>>
    ELSE <<edgeGraph[rev][1].destinationPHID>>
         \o ChainFrom(edgeGraph[rev][1].destinationPHID, n - 1)

\* start followed by its chain of single parents
StartChain == <<diff.revisionPHID>> \o ChainFrom(diff.revisionPHID, NumRevs)

\* what the walk has seen of the graph is a linear chain start -> P1 -> ...:
\* one edge per revision at most, none back to a revision of the chain
IsLinearChain ==
    /\ \A r \in DOMAIN edgeGraph : Len(edgeGraph[r]) <= 1
    /\ NoDuplicates(StartChain)

\* C2: on a linear chain start -> P1 -> ... -> PN load_parents returns exactly
\* <<P1, ..., PN>>, nearest parent first and the root PN last, and it has
\* followed the chain to the revision without parents; it returns the empty
\* sequence when the start has no parent.
C2_LinearChain ==
    (WalkReturns /\ IsLinearChain) =>
        /\ Last(StartChain) \in DOMAIN edgeGraph
        /\ parents = ChainFrom(diff.revisionPHID, NumRevs)

\* the walk returns from a chain of two ancestors
C2_Witness ==
    /\ WalkReturns
    /\ IsLinearChain
    /\ Len(ChainFrom(diff.revisionPHID, NumRevs)) = 2
    /\ Len(parents) = 2

\* C3: load_parents terminates on every finite graph, cycles included: the walk
\* ends, with the work list empty unless a request raised.
C3_Terminates == <>(WalkOver /\ (phids = <<>> \/ error.raised # None))

\* the work list is empty after a walk through a cycle: a lists b, b lists a
C3_Witness ==
    /\ WalkReturns
    /\ error.raised = None
    /\ \E a, b \in DOMAIN edgeGraph :
          a # b /\ b \in ParentsOf(a) /\ a \in ParentsOf(b)

----------------------------------------------------------------------------
(* Properties of load_patches_stack *)

\* the revision a diff phid belongs to, by the catalogue
OwnerOf(diff_phid) == RevisionOf(diff_phid[2])

\* the diff of highest id among those of an answer, cleaned
LatestOf(ds) == Clean(ds[CHOOSE i \in DOMAIN ds : \A j \in DOMAIN ds : ds[j].id <= ds[i].id])

\* the last remote call was the diff query of a parent and it was answered
DiffsAnswered ==
    /\ posts > 0
    /\ Last(calls)[1] = "differential.diff.search"
    /\ lastOut.raised = None

HasKey(d, k) == \E i \in DOMAIN d : d[i].key = k

\* C4: the returned stack ends with the target diff and starts with the diff
\* of the ancestor visited last; on a linear chain it runs from the root to the
\* target.
C4_TargetLastRootFirst ==
    pc = "done" =>
        /\ Last(result.stack)[1] = diff.phid
        /\ parents # <<>> => OwnerOf(result.stack[1][1]) = Last(parents)

\* C4 holds of every call whose walk did not return the target's own revision
\* among its ancestors.
C4_UnlessStartIsAncestor ==
    (pc = "done" /\ ~IsIn(diff.revisionPHID, parents)) =>
        /\ Last(result.stack)[1] = diff.phid
        /\ parents # <<>> => OwnerOf(result.stack[1][1]) = Last(parents)
        /\ Len(result.stack) = Len(parents) + 1
        /\ \A i \in DOMAIN parents :
              OwnerOf(result.stack[i][1]) = parents[Len(parents) + 1 - i]

\* C5: the candidate base is the base of the latest diff of the last parent,
\* and the target diff's own base when there is no parent.
C5_CandidateBase ==
    pc = "resolve" =>
        IF parents = <<>>
        THEN hg_base = diff.baseRevision
        ELSE /\ Last(calls) = <<"differential.diff.search", Last(parents)>>
             /\ lastOut.raised = None
             /\ hg_base = LatestOf(lastOut.result.data).baseRevision

\* two parents, the last of them with two diffs, and a base that is set
C5_Witness ==
    /\ pc = "resolve"
    /\ Len(parents) = 2
    /\ Len(lastOut.result.data) = 2
    /\ hg_base # None

\* the step out of line 491 found the candidate missing: None, or the probe of
\* the working copy raised CommandError
BaseMissing ==
    \/ hg_base = None
    \/ Last(calls')[3] = "CommandError"

\* C6: a candidate base that is None or not in the working copy does not fail
\* the call: a warning is recorded and the default revision becomes the base;
\* a candidate that is available stays the base and nothing is recorded.  The
\* base so resolved is the one the working copy is updated to.
C6_BaseFallback ==
    [][/\ pc = "resolve" =>
            /\ pc' = "raw"
            /\ error' = error
            /\ hg_base # None => Last(calls')[1] = "hg.identify" /\ Last(calls')[2] = hg_base
            /\ hg_base = None => calls' = calls
            /\ BaseMissing => /\ hg_base' = default_revision
                              /\ warnings' = Append(warnings, MissingBase(hg_base))
            /\ ~BaseMissing => /\ hg_base' = hg_base
                               /\ warnings' = warnings
       /\ pc \in {"raw", "update"} => hg_base' = hg_base
       /\ pc = "update" => /\ Last(calls')[1] = "hg.update"
                           /\ Last(calls')[2] = hg_base
                           /\ pc' = "identify" => repoRev' = hg_base
      ]_vars

\* the call returned with the working copy at the default revision after the
\* probe of a declared base failed
C6_Witness ==
    /\ pc = "done"
    /\ repoRev = default_revision
    /\ result.revision = default_revision
    /\ \E i \in DOMAIN warnings : \E rev \in HgRevs : warnings[i] = MissingBase(rev)

\* C7: whatever the order of a parent's diffs in the answer, the one of
\* highest id is the one in the stack, and no other diff of the answer is
\* there (but the target diff, which is there from the start).
C7_LatestDiffSelected ==
    (DiffsAnswered /\ lastOut.result.data # <<>>) =>
        LET ds == lastOut.result.data
        IN  /\ \E i \in DOMAIN patches :
                  /\ patches[i].key = LatestOf(ds).phid
                  /\ patches[i].val = [id |-> LatestOf(ds).id]
            /\ \A k \in DOMAIN ds :
                  (ds[k].id # LatestOf(ds).id /\ ds[k].phid # diff.phid)
                      => ~HasKey(patches, ds[k].phid)

\* the answer listed the newer diff first
C7_Witness ==
    /\ DiffsAnswered
    /\ Len(lastOut.result.data) = 2
    /\ lastOut.result.data[1].id > lastOut.result.data[2].id
    /\ HasKey(patches, lastOut.result.data[1].phid)
    /\ pc \in {"parents", "resolve"}

\* C8 as claimed: a parent without diffs fails the call with NotFoundError.
C8_EmptyDiffsNotFound ==
    (DiffsAnswered /\ lastOut.result.data = <<>>) =>
        /\ pc = "failed"
        /\ error.raised = "NotFoundError"
        /\ result = NoResult

\* C8: a parent without diffs fails the call with the IndexError of
\* parent_diffs[-1]; the parent is not skipped and nothing is returned.
C8_EmptyDiffsFail ==
    (DiffsAnswered /\ lastOut.result.data = <<>>) =>
        /\ pc = "failed"
        /\ error.raised = "IndexError"
        /\ result = NoResult

\* the diff query of the second parent came back empty
C8_Witness ==
    /\ DiffsAnswered
    /\ lastOut.result.data = <<>>
    /\ Len(patches) = 2
    /\ pc = "failed"

----------------------------------------------------------------------------
(* Properties of the transport *)

\* the last request got a response whose body is an envelope
EnvelopeReceived == posts > 0 /\ lastResp.sent /\ lastResp.json

ErrorInEnvelope == lastResp.has_error_code /\ lastResp.error_code # None
NoErrorInEnvelope == lastResp.has_error_code /\ lastResp.error_code = None

\* the request raised ConduitError with the envelope's code and info, logged it
\* as a warning, and the caller got the exception and no result
ConduitErrorRaised ==
    /\ lastOut.raised = "ConduitError"
    /\ lastOut.error_code = lastResp.error_code
    /\ lastOut.error_info = lastResp.error_info
    /\ warnings # <<>>
    /\ Last(warnings)[1] = "Conduit API error"
    /\ Last(warnings)[2] = lastResp.error_code
    /\ Last(warnings) = lastOut.warning
    /\ pc = "failed"
    /\ error = lastOut
    /\ result = NoResult

\* the request returned the envelope's result to the caller
ResultReturned ==
    /\ lastOut.raised = None
    /\ lastOut.result = lastResp.result
    /\ warnings = <<>>
    /\ pc = "constructed"
    /\ result = [returned |-> TRUE, user |-> lastResp.result]

\* C9 as claimed: a non-null error_code raises ConduitError, whatever the HTTP
\* status; a null error_code on a successful response returns the result.
C9_ErrorCodeDecides ==
    EnvelopeReceived =>
        /\ ErrorInEnvelope => ConduitErrorRaised
        /\ (NoErrorInEnvelope /\ lastResp.ok) => ResultReturned

\* C9: on a successful HTTP response, a non-null error_code raises ConduitError
\* with the envelope's code and info, logged as a warning, and nothing is
\* returned; a null error_code returns the envelope's result when it has one.
\* A response that is not ok raises AssertionError whatever its error_code.
C9_ErrorCodeDecidesWhenOk ==
    EnvelopeReceived =>
        /\ (ErrorInEnvelope /\ lastResp.ok) => ConduitErrorRaised
        /\ (NoErrorInEnvelope /\ lastResp.ok /\ lastResp.has_result) => ResultReturned
        /\ ~lastResp.ok => (lastOut.raised = "AssertionError" /\ warnings = <<>>
                            /\ pc = "failed" /\ result = NoResult)

\* a successful response carried an error code and no info
C9_Witness ==
    /\ EnvelopeReceived
    /\ lastResp.ok
    /\ ErrorInEnvelope
    /\ lastResp.error_info = None
    /\ Last(warnings)[3] = "unknown"
    /\ pc = "failed"

ConduitMethods == {"edge.search", "differential.diff.search", "differential.getrawdiff"}

\* C10: no retries.  A step posts at most once, exactly when it makes a remote
\* call; a remote call that fails ends load_patches_stack with that failure,
\* and nothing is posted or called after it.
C10_NoRetries ==
    [][/\ posts' \in {posts, posts + 1}
       /\ posts' = posts + 1 <=> (/\ Len(calls') = Len(calls) + 1
                                  /\ Last(calls')[1] \in ConduitMethods)
       /\ (posts' = posts + 1 /\ lastOut'.raised # None) =>
              /\ pc' = "failed"
              /\ error' = lastOut'
              /\ result' = NoResult
       /\ pc = "failed" => UNCHANGED vars
      ]_vars

\* the raw diff of the second patch could not be fetched
C10_Witness ==
    /\ pc = "failed"
    /\ posts > 0
    /\ Last(calls)[1] = "differential.getrawdiff"
    /\ lastOut.raised = "RequestException"
    /\ error = lastOut
    /\ patches[1].val = RawContent(diff.id)

----------------------------------------------------------------------------
(* Properties of the working copy *)

\* a working copy command of the log of calls
IsHg(c) == Len(c) = 3

\* the last thing the call did was an update of the working copy that raised
UpdateFailed ==
    /\ calls # <<>>
    /\ IsHg(Last(calls))
    /\ Last(calls)[1] = "hg.update"
    /\ Last(calls)[3] = "CommandError"

\* the positions of the log of calls where the working copy was updated
Updates == {i \in DOMAIN calls : IsHg(calls[i]) /\ calls[i][1] = "hg.update"}

\* the positions of the log of calls where the working copy's identity was read back
ReadBacks ==
    {i \in DOMAIN calls : IsHg(calls[i]) /\ calls[i][1] = "hg.identify" /\ calls[i][2] = "id"}

\* C11: an update to the resolved base that raises ends the call with an
\* Exception that names the revision.  The update is the only one of the call
\* (no other revision is tried), the working copy's identity is not read back,
\* and no stack is returned.
C11_UpdateErrorFatal ==
    UpdateFailed =>
        /\ pc = "failed"
        /\ error = Raised("Exception", <<"Failed to update to revision", hg_base>>)
        /\ Last(calls)[2] = hg_base
        /\ Cardinality(Updates) = 1
        /\ ReadBacks = {}
        /\ result = NoResult
        /\ repoRev = InitialRepoRev

\* the update of a stack of two patches to a declared base raised
C11_Witness ==
    /\ UpdateFailed
    /\ pc = "failed"
    /\ Len(patches) = 2
    /\ hg_base \in HgRevs

----------------------------------------------------------------------------
(* Properties of the returned stack *)

\* the entry of the stack for the diff of this id: its phid with the content
\* that differential.getrawdiff gave for this id
EntryOf(id) == <<DiffPhid(id), RawContent(id)>>

\* the raw diff of this id was fetched by the call
Fetched(id) ==
    \E k \in DOMAIN calls :
        ~IsHg(calls[k]) /\ calls[k][1] = "differential.getrawdiff" /\ calls[k][2] = id

\* every entry of the stack pairs a diff with the raw content fetched by its id
EntriesPaired ==
    \A i \in DOMAIN result.stack :
        \E id \in DIFFIDS : result.stack[i] = EntryOf(id) /\ Fetched(id)

\* C12: a call that returns gives one entry for the target diff and one for
\* each ancestor load_parents returned, and each entry pairs a diff's phid
\* with the raw content fetched by that diff's id.
C12_OneEntryPerAncestor ==
    pc = "done" =>
        /\ Len(result.stack) = Len(parents) + 1
        /\ Cardinality({i \in DOMAIN result.stack : result.stack[i][1] = diff.phid}) = 1
        /\ EntriesPaired

\* C12 holds of every call whose walk did not return the target's own revision
\* among its ancestors; the pairing of the entries holds of every call.
C12_UnlessStartIsAncestor ==
    pc = "done" =>
        /\ EntriesPaired
        /\ Cardinality({i \in DOMAIN result.stack : result.stack[i][1] = diff.phid}) = 1
        /\ ~IsIn(diff.revisionPHID, parents) => Len(result.stack) = Len(parents) + 1

----------------------------------------------------------------------------
(* Properties of the order of the remote calls and working copy commands *)

\* the phase of load_patches_stack a logged call belongs to: 1 the walk of the
\* parent edges, 2 the selection of the parents' diffs, 3 the probe of the
\* base, 4 the fetch of the raw diffs, 5 the update of the working copy, 6 the
\* read-back of its identity
PhaseOf(c) ==
    IF IsHg(c)
    THEN IF c[1] = "hg.update" THEN 5 ELSE IF c[2] = "id" THEN 6 ELSE 3
    ELSE IF c[1] = "edge.search" THEN 1
    ELSE IF c[1] = "differential.diff.search" THEN 2
    ELSE 4

CallsOfPhase(n) == {i \in DOMAIN calls : PhaseOf(calls[i]) = n}

\* C13: the phases of one call never interleave.  In the order the calls were
\* made, every edge query precedes every diff query, every diff query precedes
\* the probe of the base and every raw diff fetch, every raw diff fetch
\* precedes the update of the working copy, and the update precedes the
\* read-back of its identity; probe, update and read-back happen at most once.
C13_PhasesInOrder ==
    /\ \A i, j \in DOMAIN calls : i < j => PhaseOf(calls[i]) <= PhaseOf(calls[j])
    /\ Cardinality(CallsOfPhase(3)) <= 1
    /\ Cardinality(CallsOfPhase(5)) <= 1
    /\ Cardinality(CallsOfPhase(6)) <= 1
    /\ pc = "done" => CallsOfPhase(5) # {} /\ CallsOfPhase(6) # {}

\* a call that returned after going through every phase, each of the remote
\* phases more than once
C13_Witness ==
    /\ pc = "done"
    /\ Cardinality(CallsOfPhase(1)) >= 3
    /\ Cardinality(CallsOfPhase(2)) >= 2
    /\ Cardinality(CallsOfPhase(3)) = 1
    /\ Cardinality(CallsOfPhase(4)) >= 3

----------------------------------------------------------------------------
(* revision_exists_on_central, behind functools.lru_cache *)

\* The capacity of the cache.  The source gives maxsize=2048; the model keeps
\* fewer keys, the order of eviction being the same at every capacity.
maxsize == 2

\* the revisions asked about: one more than the cache holds
CentralRevisions == 1..(maxsize + 1)

\* the calls of one behaviour: enough to fill the cache, evict and ask again
MaxLookups == maxsize + 3

\* a hit that leaves the order of use alone
TouchNot(c, revision) == c

\* a hit makes the key the most recently used
Touch(c, revision) == Append(SelectSeq(c, LAMBDA r : r # revision), revision)

\* a miss that returned: the key enters as the most recently used; a full cache
\* drops its least recently used key
Store(c, revision) == Append(IF Len(c) = maxsize THEN Tail(c) ELSE c, revision)

\* requests.get(url) followed by resp.raise_for_status()
GetOutcomes == {"ok", "HTTPError"}

\* what the function returns when it returns: resp.ok after raise_for_status
Exists == [returned |-> TRUE, value |-> TRUE]

InitCentral ==
    /\ pc = "central"
    /\ Fresh

\* revision_exists_on_central(revision), the key in the cache: no request
CacheHit(revision) ==
    /\ pc = "central"
    /\ Len(calls) < MaxLookups
    /\ IsIn(revision, cache)
    /\ cache' = Touch(cache, revision)
    /\ gets' = gets
    /\ calls' = Append(calls, <<"revision_exists_on_central", revision, "hit">>)
    /\ result' = Exists
    /\ error' = NoError
    /\ UNCHANGED <<pc, diff, default_revision, edgeGraph, parents, phids, phid, data,
                   patches, idx, hg_base, warnings, posts, lastResp, lastOut, repoRev>>

\* revision_exists_on_central(revision), the key not in the cache: lines 32-35
\* run; what they return is stored, what they raise is not
CacheMiss(revision) ==
    /\ pc = "central"
    /\ Len(calls) < MaxLookups
    /\ ~IsIn(revision, cache)
    /\ gets' = gets + 1
    /\ \E resp \in GetOutcomes :
          /\ calls' = Append(calls, <<"revision_exists_on_central", revision, resp>>)
          /\ IF resp = "ok"
             THEN /\ cache' = Store(cache, revision)
                  /\ result' = Exists
                  /\ error' = NoError
             ELSE /\ cache' = cache
                  /\ result' = NoResult
                  /\ error' = Raised("HTTPError", None)
    /\ UNCHANGED <<pc, diff, default_revision, edgeGraph, parents, phids, phid, data,
                   patches, idx, hg_base, warnings, posts, lastResp, lastOut, repoRev>>

CentralNext ==
    \/ \E revision \in CentralRevisions : CacheHit(revision)
    \/ \E revision \in CentralRevisions : CacheMiss(revision)

SpecCentral == InitCentral /\ [][CentralNext]_vars

----------------------------------------------------------------------------
(* Properties of revision_exists_on_central *)

\* the i-th call returned
ReturnedAt(i) == calls[i][3] \in {"hit", "ok"}

\* the calls for this revision that returned
ReturnsOf(revision) == {i \in DOMAIN calls : calls[i][2] = revision /\ ReturnedAt(i)}

ReturnedBefore(revision) == ReturnsOf(revision) # {}

\* the revisions for which a call returned after the i-th call
UsedSince(i) == {calls[j][2] : j \in {k \in DOMAIN calls : k > i /\ ReturnedAt(k)}}

\* a call for this revision returned, and since the last one that did, calls
\* returned for fewer other revisions than the cache holds keys
RecentlyReturned(revision) ==
    /\ ReturnedBefore(revision)
    /\ LET last == CHOOSE i \in ReturnsOf(revision) : \A j \in ReturnsOf(revision) : j <= i
       IN  Cardinality(UsedSince(last)) < maxsize

\* this step is a call of revision_exists_on_central(revision)
LookedUp(revision) == Len(calls') = Len(calls) + 1 /\ Last(calls')[2] = revision

\* C14 as claimed: once a call for a revision has returned, every later call
\* for it returns the cached answer and makes no request, whatever calls were
\* made in between.
C14_CachedIndefinitely ==
    [][\A revision \in CentralRevisions :
          (LookedUp(revision) /\ ReturnedBefore(revision)) =>
              /\ gets' = gets
              /\ result' = Exists
      ]_vars

\* C14: once a call for a revision has returned, a later call for it returns
\* the cached answer and makes no request as long as, since its last return,
\* calls returned for fewer than maxsize other revisions; calls that raised in
\* between do not count.  Any other call makes one request.
C14_CachedWhileRecent ==
    [][\A revision \in CentralRevisions :
          LookedUp(revision) =>
              IF RecentlyReturned(revision)
              THEN /\ gets' = gets
                   /\ result' = Exists
                   /\ Last(calls')[3] = "hit"
              ELSE gets' = gets + 1
      ]_vars

\* a call was answered from the cache after calls for another revision, one
\* that returned and one that raised
C14_Witness ==
    /\ Len(calls) >= 4
    /\ Last(calls)[3] = "hit"
    /\ gets = Len(calls) - 1
    /\ \E i, j \in DOMAIN calls :
          /\ calls[i][2] # Last(calls)[2] /\ calls[i][3] = "ok"
          /\ calls[j][2] # Last(calls)[2] /\ calls[j][3] = "HTTPError"
          /\ \E k \in ReturnsOf(Last(calls)[2]) : k < i /\ k < j

----------------------------------------------------------------------------
(* Properties of the loop over the edges of one pop *)

\* the edges of the popped revision that the loop has been through
Processed == Len(edgeGraph[phid]) - Len(data)

\* the last n elements of a list
LastN(s, n) == SubSeq(s, Len(s) - n + 1, Len(s))

\* Inside the loop, the edges not yet looked at are the rest of the answer, and
\* the destinations of the edges before them are the newest elements of
\* parents and of the work list, in the order of the answer.
EdgesBeforeAppended ==
    pc = "for" =>
        /\ Processed \in 0..Len(edgeGraph[phid])
        /\ data = SubSeq(edgeGraph[phid], Processed + 1, Len(edgeGraph[phid]))
        /\ Processed <= Len(parents)
        /\ Processed <= Len(phids)
        /\ LastN(parents, Processed) =
              [i \in 1..Processed |-> edgeGraph[phid][i].destinationPHID]
        /\ LastN(phids, Processed) = LastN(parents, Processed)

\* what a step of the walk does with the edges of the pop
EdgeStep ==
    /\ (pc = "for" /\ data # <<>> /\ IsIn(Head(data).destinationPHID, parents)) =>
            /\ pc' = "while"
            /\ parents' = parents
            /\ phids' = phids
    /\ (pc = "for" /\ data # <<>> /\ ~IsIn(Head(data).destinationPHID, parents)) =>
            /\ pc' = "for"
            /\ parents' = Append(parents, Head(data).destinationPHID)
            /\ phids' = Append(phids, Head(data).destinationPHID)
            /\ data' = Tail(data)
    /\ pc = "while" => parents' = parents
    /\ (pc = "while" /\ pc' = "for") =>
            /\ phids' = Front(phids)
            /\ data' = edgeGraph'[Last(phids)]

\* C15: the edges of one pop are taken in order.  The first destination that
\* is already in parents ends the pop: nothing is appended or queued for it or
\* for any edge after it, seen or not, and the next edges looked at are those
\* of the next pop.  The destinations of the edges before it have been
\* appended to parents and queued.
C15_BreakStopsRemainingEdges == []EdgesBeforeAppended /\ [][EdgeStep]_vars

\* the walk returns without a revision that an answer listed after a
\* destination already seen, the edges before it appended
C15_Witness ==
    /\ WalkReturns
    /\ \E r \in DOMAIN edgeGraph :
          \E i, j \in DOMAIN edgeGraph[r] :
              /\ 1 < i /\ i < j
              /\ IsIn(edgeGraph[r][1].destinationPHID, parents)
              /\ \E k \in 1..(i - 1) :
                    edgeGraph[r][k].destinationPHID = edgeGraph[r][i].destinationPHID
              /\ ~IsIn(edgeGraph[r][j].destinationPHID, parents)
              /\ edgeGraph[r][j].destinationPHID # diff.revisionPHID

----------------------------------------------------------------------------
(* Properties of the working copy's checked-out revision *)

\* Before the update of the working copy has succeeded, the working copy is
\* where the call found it: during the walk, the diff queries, the probe of
\* the base and the raw diff fetches, and after a failure of any of them or of
\* the update itself.
UntouchedUntilUpdated == pc \notin {"identify", "done"} => repoRev = InitialRepoRev

\* the only step that moves the working copy is the update to the resolved base
OnlyUpdateMoves ==
    repoRev' # repoRev =>
        /\ pc = "update"
        /\ Last(calls') = <<"hg.update", hg_base, "ok">>
        /\ repoRev' = hg_base
        /\ repoRev = InitialRepoRev

\* C16: the working copy's checked-out revision changes at most once in a
\* call, and only by the update to the resolved base.  A call that fails at
\* an edge query, a diff query, a parent without diffs or a raw diff fetch
\* leaves it as it was, and so does the probe of the base.
C16_WorkingCopyMovedOnce ==
    /\ []UntouchedUntilUpdated
    /\ [][OnlyUpdateMoves]_vars
    /\ [](Cardinality(Updates) <= 1)

\* a raw diff fetch failed after the probe had found the base in the working copy
C16_Witness ==
    /\ pc = "failed"
    /\ posts > 0
    /\ lastOut.raised # None
    /\ Len(calls) >= 2
    /\ ~IsHg(Last(calls))
    /\ Last(calls)[1] = "differential.getrawdiff"
    /\ \E i \in DOMAIN calls :
          IsHg(calls[i]) /\ calls[i][1] = "hg.identify" /\ calls[i][3] = "ok"
    /\ hg_base \in HgRevs
    /\ repoRev = InitialRepoRev

----------------------------------------------------------------------------
(* Properties of the start revision *)

\* the revisions the entries of the returned stack belong to, in order
StackOwners == [i \in DOMAIN result.stack |-> OwnerOf(result.stack[i][1])]

\* C17: whatever the graph of parent edges, load_parents never has the start
\* revision among the ancestors it collects, so no diff of the target's own
\* revision is selected as a parent's and no two entries of the returned
\* stack belong to the same revision.
C17_StartNeverAncestor ==
    /\ ~IsIn(diff.revisionPHID, parents)
    /\ pc = "done" => NoDuplicates(StackOwners)

\* The start revision enters parents only as the destination of an edge the
\* walk was given, and a stack returned without it among the ancestors has
\* one revision per entry.
C17_UnlessEdgeLeadsToStart ==
    /\ (pc \in {"while", "for"} /\ IsIn(diff.revisionPHID, parents)) =>
            \E r \in DOMAIN edgeGraph : diff.revisionPHID \in ParentsOf(r)
    /\ (pc = "done" /\ ~IsIn(diff.revisionPHID, parents)) => NoDuplicates(StackOwners)

====
